---- MODULE Spec2Model ----
(***************************************************************************)
(* State-machine model of the rug-roulette Anchor program                  *)
(* (programs/rug-roulette/src/lib.rs).                                     *)
(*                                                                         *)
(* Every instruction is one atomic action: the runtime runs a transaction  *)
(* to completion and rolls every account back when it returns an error.    *)
(* Account validation (the #[derive(Accounts)] structs) runs before the    *)
(* handler body, in the order of the struct's fields.                      *)
(*                                                                         *)
(* Lamport amounts are naturals.  The u64 additions of total_pot and of    *)
(* the balances cannot wrap in a transaction that succeeds: total_pot is   *)
(* never more than the lamports that the vault received, and the system    *)
(* program's transfer refuses a balance it cannot represent.  The u32      *)
(* counters count entries, of which the model holds a handful.  The seed   *)
(* of trigger_rug does wrap, so it is computed on 64-bit words (four       *)
(* 16-bit limbs).                                                          *)
(*                                                                         *)
(* Lines 113-114 of claim_winnings are modelled as written, a move of      *)
(* lamports from the vault to the player.  Rent and the ownership of the   *)
(* vault account are matters of the runtime and are not modelled.          *)
(***************************************************************************)
EXTENDS Integers, Sequences, FiniteSets, TLC

VARIABLES
    game,       \* Game accounts, keyed by the authority whose key seeds the PDA
    entry,      \* PlayerEntry accounts, keyed by <<game, player>> (the PDA seeds)
    vault,      \* lamports of each game's vault PDA
    lamports,   \* lamports of the signers' own accounts
    paid,       \* history: lamports debited from each vault by claim_winnings
    last        \* the last instruction processed, its result, the clock it read

vars == <<game, entry, vault, lamports, paid, last>>

(***************************************************************************)
(* Program constants and types                                             *)
(***************************************************************************)
NUM_TOKENS == 6

Open == "Open"
Rugged == "Rugged"
Closed == "Closed"
GameStatus == {Open, Rugged, Closed}

\* Option<u8>
None == <<>>
Some(x) == <<x>>

Ok == "Ok"

TokenSlots == 0 .. (NUM_TOKENS - 1)

(***************************************************************************)
(* Bounds of the model                                                     *)
(***************************************************************************)
NumKeys == 2        \* signer identities
MaxFee == 2         \* entry_fee ranges over 0 .. MaxFee
InitLamports == 1   \* what every signer owns at the start
MaxSlot == 5        \* Clock.slot ranges over 0 .. MaxSlot
MaxTime == 1        \* Clock.unix_timestamp ranges over -MaxTime .. 0

Keys == 1 .. NumKeys
Authorities == {1}                  \* the identities that open a game
Fees == 0 .. MaxFee
TokenInputs == 0 .. NUM_TOKENS      \* NUM_TOKENS itself is the out-of-range input
Slots == 0 .. MaxSlot
Times == (0 - MaxTime) .. 0

(***************************************************************************)
(* 64-bit words: <<l0, l1, l2, l3>>, sixteen bits each, l0 least           *)
(* significant.                                                            *)
(***************************************************************************)
Limb == 65536

\* `x as u64` for a small u64 or i64 value x (two's complement when negative)
AsU64(x) ==
    IF x >= 0
    THEN <<x % Limb, (x \div Limb) % Limb, 0, 0>>
    ELSE <<Limb - (0 - x), Limb - 1, Limb - 1, Limb - 1>>

\* mutant: u64::saturating_add, a carry out of the top limb gives u64::MAX
wrapping_add_Saturating(a, b) ==
    LET s0 == a[1] + b[1]
        s1 == a[2] + b[2] + (s0 \div Limb)
        s2 == a[3] + b[3] + (s1 \div Limb)
        s3 == a[4] + b[4] + (s2 \div Limb)
    IN  IF s3 >= Limb
        THEN <<Limb - 1, Limb - 1, Limb - 1, Limb - 1>>
        ELSE <<s0 % Limb, s1 % Limb, s2 % Limb, s3 % Limb>>

\* u64::wrapping_add: the carry out of the top limb is dropped
wrapping_add(a, b) ==
    LET s0 == a[1] + b[1]
        s1 == a[2] + b[2] + (s0 \div Limb)
        s2 == a[3] + b[3] + (s1 \div Limb)
        s3 == a[4] + b[4] + (s2 \div Limb)
    IN  <<s0 % Limb, s1 % Limb, s2 % Limb, s3 % Limb>>

\* a % m on a 64-bit word, for a small m
U64Rem(a, m) ==
    LET r3 == a[4] % m
        r2 == (r3 * Limb + a[3]) % m
        r1 == (r2 * Limb + a[2]) % m
    IN  (r1 * Limb + a[1]) % m

\* lines 80-81 of trigger_rug
SurvivorOf(slot, unix_timestamp) ==
    U64Rem(wrapping_add(AsU64(slot), AsU64(unix_timestamp)), NUM_TOKENS)

(***************************************************************************)
(* Helpers                                                                 *)
(***************************************************************************)
RECURSIVE SumUpTo(_, _)
SumUpTo(f, n) == IF n < 0 THEN 0 ELSE f[n] + SumUpTo(f, n - 1)

SumCounts(f) == SumUpTo(f, NUM_TOKENS - 1)

NoAccounts == [x \in {} |-> 0]

\* the account store with the account at `key` created or overwritten
Store(accounts, key, value) ==
    [k \in (DOMAIN accounts) \cup {key} |-> IF k = key THEN value ELSE accounts[k]]

Result(op, err) == [op |-> op, err |-> err, clock |-> <<>>]

\* the result of a trigger_rug that read <<slot, unix_timestamp>> from the clock
RugResult(slot, unix_timestamp) ==
    [op |-> "trigger_rug", err |-> Ok, clock |-> <<slot, unix_timestamp>>]

\* a failed transaction is rolled back: only its result is observable
Fails(op, err) ==
    /\ last' = Result(op, err)
    /\ UNCHANGED <<game, entry, vault, lamports, paid>>

(***************************************************************************)
(* initialize_game                                                         *)
(***************************************************************************)
\* mutant: `init_if_needed` in place of `init`, an existing game is reset
InitializeGameAccounts_IfNeeded(authority) == Ok

\* `init` on the game PDA, seeds = ["game", authority]
InitializeGameAccounts(authority) ==
    IF authority \in DOMAIN game THEN "AccountAlreadyInUse" ELSE Ok

NewGame(authority, entry_fee) ==
    [ authority      |-> authority,
      entry_fee      |-> entry_fee,
      total_pot      |-> 0,
      player_count   |-> 0,
      status         |-> Open,
      survivor_index |-> None,
      token_counts   |-> [t \in TokenSlots |-> 0] ]

initialize_game(authority, entry_fee) ==
    LET err == InitializeGameAccounts(authority) IN
    IF err # Ok
    THEN Fails("initialize_game", err)
    ELSE /\ game' = Store(game, authority, NewGame(authority, entry_fee))
         /\ last' = Result("initialize_game", Ok)
         /\ UNCHANGED <<entry, vault, lamports, paid>>

(***************************************************************************)
(* enter_game                                                              *)
(***************************************************************************)
\* mutant: `init_if_needed` in place of `init` on player_entry
EnterGameAccounts_IfNeeded(player, g, v) ==
    IF g \notin DOMAIN game THEN "AccountNotInitialized"
    ELSE IF v # g THEN "ConstraintSeeds"
    ELSE Ok

\* EnterGame: game must be a Game account, game_vault the PDA of that game,
\* player_entry is created (`init`) at seeds ["entry", game, player]
EnterGameAccounts(player, g, v) ==
    IF g \notin DOMAIN game THEN "AccountNotInitialized"
    ELSE IF v # g THEN "ConstraintSeeds"
    ELSE IF <<g, player>> \in DOMAIN entry THEN "AccountAlreadyInUse"
    ELSE Ok

\* mutant: the range check of line 35 is missing
EnterGameError_NoTokenCheck(player, g, token_index) ==
    IF game[g].status # Open THEN "GameNotOpen"
    ELSE IF lamports[player] < game[g].entry_fee THEN "InsufficientFunds"
    ELSE Ok

\* mutant: the status check of line 38 is missing
EnterGameError_NoStatusCheck(player, g, token_index) ==
    IF ~(token_index < NUM_TOKENS) THEN "InvalidTokenIndex"
    ELSE IF lamports[player] < game[g].entry_fee THEN "InsufficientFunds"
    ELSE Ok

\* mutant: the transfer does not fail on a balance below the fee
EnterGameError_NoFundsCheck(player, g, token_index) ==
    IF ~(token_index < NUM_TOKENS) THEN "InvalidTokenIndex"
    ELSE IF game[g].status # Open THEN "GameNotOpen"
    ELSE Ok

\* the handler's checks, in order, the system transfer included
EnterGameError(player, g, token_index) ==
    IF ~(token_index < NUM_TOKENS) THEN "InvalidTokenIndex"
    ELSE IF game[g].status # Open THEN "GameNotOpen"
    ELSE IF lamports[player] < game[g].entry_fee THEN "InsufficientFunds"
    ELSE Ok

NewEntry(player, g, token_index) ==
    [ player      |-> player,
      game        |-> g,
      token_index |-> token_index,
      claimed     |-> FALSE ]

\* mutant: total_pot is assigned the fee instead of accumulating it
EnteredGame_PotAssigned(gm, token_index) ==
    [ gm EXCEPT !.total_pot = gm.entry_fee,
                !.player_count = @ + 1,
                !.token_counts[token_index] = @ + 1 ]

\* mutant: the token's counter is set to one instead of incremented
EnteredGame_CountAssigned(gm, token_index) ==
    [ gm EXCEPT !.total_pot = @ + gm.entry_fee,
                !.player_count = @ + 1,
                !.token_counts[token_index] = 1 ]

EnteredGame(gm, token_index) ==
    [ gm EXCEPT !.total_pot = @ + gm.entry_fee,
                !.player_count = @ + 1,
                !.token_counts[token_index] = @ + 1 ]

enter_game(player, g, v, token_index) ==
    LET acc == EnterGameAccounts(player, g, v) IN
    IF acc # Ok
    THEN Fails("enter_game", acc)
    ELSE LET err == EnterGameError(player, g, token_index) IN
         IF err # Ok
         THEN Fails("enter_game", err)
         ELSE /\ lamports' = [lamports EXCEPT ![player] = @ - game[g].entry_fee]
              /\ vault' = [vault EXCEPT ![g] = @ + game[g].entry_fee]
              /\ entry' = Store(entry, <<g, player>>, NewEntry(player, g, token_index))
              /\ game' = [game EXCEPT ![g] = EnteredGame(@, token_index)]
              /\ last' = Result("enter_game", Ok)
              /\ UNCHANGED paid

(***************************************************************************)
(* trigger_rug                                                             *)
(***************************************************************************)
\* mutant: `has_one = authority` is missing
TriggerRugAccounts_NoHasOne(authority, g) ==
    IF g \notin DOMAIN game THEN "AccountNotInitialized"
    ELSE Ok

\* TriggerRug: game must be a Game account with game.authority == authority
TriggerRugAccounts(authority, g) ==
    IF g \notin DOMAIN game THEN "AccountNotInitialized"
    ELSE IF game[g].authority # authority THEN "ConstraintHasOne"
    ELSE Ok

\* mutant: the status check of line 75 is missing
TriggerRugError_NoStatusCheck(g) ==
    IF ~(game[g].player_count > 0) THEN "NoPlayers"
    ELSE Ok

\* mutant: the player_count check of line 76 is missing
TriggerRugError_NoPlayersCheck(g) ==
    IF game[g].status # Open THEN "GameNotOpen"
    ELSE Ok

TriggerRugError(g) ==
    IF game[g].status # Open THEN "GameNotOpen"
    ELSE IF ~(game[g].player_count > 0) THEN "NoPlayers"
    ELSE Ok

\* mutant: line 84 is missing, the status stays Open
trigger_rug_StatusNotSet(authority, g) ==
    LET acc == TriggerRugAccounts(authority, g) IN
    IF acc # Ok
    THEN Fails("trigger_rug", acc)
    ELSE LET err == TriggerRugError(g) IN
         IF err # Ok
         THEN Fails("trigger_rug", err)
         ELSE \E slot \in Slots, unix_timestamp \in Times :
              /\ game' = [game EXCEPT
                     ![g].survivor_index = Some(SurvivorOf(slot, unix_timestamp))]
              /\ last' = RugResult(slot, unix_timestamp)
              /\ UNCHANGED <<entry, vault, lamports, paid>>

\* Clock::get() is read at line 79, after the two checks
trigger_rug(authority, g) ==
    LET acc == TriggerRugAccounts(authority, g) IN
    IF acc # Ok
    THEN Fails("trigger_rug", acc)
    ELSE LET err == TriggerRugError(g) IN
         IF err # Ok
         THEN Fails("trigger_rug", err)
         ELSE \E slot \in Slots, unix_timestamp \in Times :
              /\ game' = [game EXCEPT
                     ![g].survivor_index = Some(SurvivorOf(slot, unix_timestamp)),
                     ![g].status = Rugged]
              /\ last' = RugResult(slot, unix_timestamp)
              /\ UNCHANGED <<entry, vault, lamports, paid>>

(***************************************************************************)
(* claim_winnings                                                          *)
(***************************************************************************)
\* mutant: `has_one = game` is missing on player_entry
ClaimWinningsAccounts_NoHasOneGame(player, g, v, e) ==
    IF g \notin DOMAIN game THEN "AccountNotInitialized"
    ELSE IF v # g THEN "ConstraintSeeds"
    ELSE IF e \notin DOMAIN entry THEN "AccountNotInitialized"
    ELSE IF entry[e].player # player THEN "ConstraintHasOne"
    ELSE Ok

\* ClaimWinnings: game, its vault PDA, a PlayerEntry e with e.player == player
\* and e.game == game
ClaimWinningsAccounts(player, g, v, e) ==
    IF g \notin DOMAIN game THEN "AccountNotInitialized"
    ELSE IF v # g THEN "ConstraintSeeds"
    ELSE IF e \notin DOMAIN entry THEN "AccountNotInitialized"
    ELSE IF entry[e].player # player THEN "ConstraintHasOne"
    ELSE IF entry[e].game # g THEN "ConstraintHasOne"
    ELSE Ok

\* mutant: the share is rounded up
Winnings_RoundedUp(gm) ==
    (gm.total_pot + gm.token_counts[gm.survivor_index[1]] - 1)
        \div gm.token_counts[gm.survivor_index[1]]

\* mutant: the pot is divided among all players, not among the survivors
Winnings_PerPlayer(gm) ==
    gm.total_pot \div gm.player_count

\* mutant: the division of line 110 is missing, a winner takes the pot
Winnings_WholePot(gm) ==
    gm.total_pot

\* line 110
Winnings(gm) ==
    gm.total_pot \div gm.token_counts[gm.survivor_index[1]]

\* mutant: the status check of line 101 is missing
ClaimWinningsError_NoStatusCheck(g, v, e) ==
    IF entry[e].claimed THEN "AlreadyClaimed"
    ELSE IF game[g].survivor_index = None THEN "NoSurvivor"
    ELSE IF entry[e].token_index # game[g].survivor_index[1] THEN "NotASurvivor"
    ELSE IF ~(game[g].token_counts[game[g].survivor_index[1]] > 0) THEN "NoSurvivors"
    ELSE IF vault[v] < Winnings(game[g]) THEN "LamportUnderflow"
    ELSE Ok

\* mutant: the claimed check of line 102 is missing
ClaimWinningsError_NoClaimedCheck(g, v, e) ==
    IF game[g].status # Rugged THEN "GameNotRugged"
    ELSE IF game[g].survivor_index = None THEN "NoSurvivor"
    ELSE IF entry[e].token_index # game[g].survivor_index[1] THEN "NotASurvivor"
    ELSE IF ~(game[g].token_counts[game[g].survivor_index[1]] > 0) THEN "NoSurvivors"
    ELSE IF vault[v] < Winnings(game[g]) THEN "LamportUnderflow"
    ELSE Ok

\* mutant: the survivor check of line 105 is missing
ClaimWinningsError_NoSurvivorCheck(g, v, e) ==
    IF game[g].status # Rugged THEN "GameNotRugged"
    ELSE IF entry[e].claimed THEN "AlreadyClaimed"
    ELSE IF game[g].survivor_index = None THEN "NoSurvivor"
    ELSE IF ~(game[g].token_counts[game[g].survivor_index[1]] > 0) THEN "NoSurvivors"
    ELSE IF vault[v] < Winnings(game[g]) THEN "LamportUnderflow"
    ELSE Ok

\* The handler's checks, in order.  The subtraction of line 113 either
\* panics (overflow checks on) or wraps and is refused by the runtime's
\* balance check: the transaction fails in both builds.
ClaimWinningsError(g, v, e) ==
    IF game[g].status # Rugged THEN "GameNotRugged"
    ELSE IF entry[e].claimed THEN "AlreadyClaimed"
    ELSE IF game[g].survivor_index = None THEN "NoSurvivor"
    ELSE IF entry[e].token_index # game[g].survivor_index[1] THEN "NotASurvivor"
    ELSE IF ~(game[g].token_counts[game[g].survivor_index[1]] > 0) THEN "NoSurvivors"
    ELSE IF vault[v] < Winnings(game[g]) THEN "LamportUnderflow"
    ELSE Ok

claim_winnings(player, g, v, e) ==
    LET acc == ClaimWinningsAccounts(player, g, v, e) IN
    IF acc # Ok
    THEN Fails("claim_winnings", acc)
    ELSE LET err == ClaimWinningsError(g, v, e) IN
         IF err # Ok
         THEN Fails("claim_winnings", err)
         ELSE /\ vault' = [vault EXCEPT ![v] = @ - Winnings(game[g])]
              /\ lamports' = [lamports EXCEPT ![player] = @ + Winnings(game[g])]
              /\ paid' = [paid EXCEPT ![v] = @ + Winnings(game[g])]
              /\ entry' = [entry EXCEPT ![e].claimed = TRUE]
              /\ last' = Result("claim_winnings", Ok)
              /\ UNCHANGED game

(***************************************************************************)
(* Specification                                                           *)
(***************************************************************************)
Init ==
    /\ game = NoAccounts
    /\ entry = NoAccounts
    /\ vault = [k \in Keys |-> 0]
    /\ lamports = [k \in Keys |-> InitLamports]
    /\ paid = [k \in Keys |-> 0]
    /\ last = Result("none", Ok)

Signers == DOMAIN lamports
EntryKeys == Authorities \X Signers

Next ==
    \/ \E a \in Authorities, fee \in Fees :
          initialize_game(a, fee)
    \/ \E p \in Signers, g \in Authorities, v \in Authorities, t \in TokenInputs :
          enter_game(p, g, v, t)
    \/ \E a \in Signers, g \in Authorities :
          trigger_rug(a, g)
    \/ \E p \in Signers, g \in Authorities, v \in Authorities, e \in EntryKeys :
          claim_winnings(p, g, v, e)

Spec == Init /\ [][Next]_vars

(***************************************************************************)
(* The worked example of the specification: five players, a fee of 100,    *)
(* entries on tokens 2 and 5.                                              *)
(***************************************************************************)
ExNumKeys == 5
ExFee == 100
ExKeys == 1 .. ExNumKeys
ExTokens == {2, 5}

ExInit ==
    /\ game = NoAccounts
    /\ entry = NoAccounts
    /\ vault = [k \in ExKeys |-> 0]
    /\ lamports = [k \in ExKeys |-> ExFee]
    /\ paid = [k \in ExKeys |-> 0]
    /\ last = Result("none", Ok)

ExNext ==
    \/ \E a \in Authorities :
          initialize_game(a, ExFee)
    \/ \E p \in Signers, g \in Authorities, v \in Authorities, t \in ExTokens :
          enter_game(p, g, v, t)
    \/ \E a \in Signers, g \in Authorities :
          trigger_rug(a, g)
    \/ \E p \in Signers, g \in Authorities, v \in Authorities, e \in EntryKeys :
          claim_winnings(p, g, v, e)

ExampleSpec == ExInit /\ [][ExNext]_vars

(***************************************************************************)
(* Two games side by side: two keys, each the authority of a game and a    *)
(* player of both, every entry on token 0.                                 *)
(***************************************************************************)
TwoFee == 1
TwoKeys == {1, 2}
TwoTokens == {0}

TwoInit ==
    /\ game = NoAccounts
    /\ entry = NoAccounts
    /\ vault = [k \in TwoKeys |-> 0]
    /\ lamports = [k \in TwoKeys |-> 2 * TwoFee]
    /\ paid = [k \in TwoKeys |-> 0]
    /\ last = Result("none", Ok)

TwoNext ==
    \/ \E a \in Signers :
          initialize_game(a, TwoFee)
    \/ \E p \in Signers, g \in Signers, v \in Signers, t \in TwoTokens :
          enter_game(p, g, v, t)
    \/ \E a \in Signers, g \in Signers :
          trigger_rug(a, g)
    \/ \E p \in Signers, g \in Signers, v \in Signers, e \in Signers \X Signers :
          claim_winnings(p, g, v, e)

TwoGameSpec == TwoInit /\ [][TwoNext]_vars

(***************************************************************************)
(* Properties                                                              *)
(***************************************************************************)
Accounts == <<game, entry, vault, lamports, paid>>

SurvivorCount(gm) == gm.token_counts[gm.survivor_index[1]]

\* the entries of game g that hold the surviving token
Winners(g) ==
    {e \in DOMAIN entry :
        entry[e].game = g /\ entry[e].token_index = game[g].survivor_index[1]}

AllWinnersClaimed(g) == \A e \in Winners(g) : entry[e].claimed

SucceededLast(op) == last = Result(op, Ok)

\* C1: an entry's claim succeeds at most once.  A claim_winnings that
\* succeeds starts from claimed = false and sets it; claimed never reverts and
\* the entry is never removed; every claim_winnings on a claimed entry fails
\* and changes no account, with AlreadyClaimed when the accounts presented are
\* the entry's own game, vault and player.
ClaimedAtMostOnce ==
    [][ /\ \A p \in Signers, g \in Authorities, v \in Authorities, e \in EntryKeys :
              (last'.op = "claim_winnings" /\ claim_winnings(p, g, v, e)) =>
                  /\ last'.err = Ok => (~entry[e].claimed /\ entry'[e].claimed)
                  /\ (e \in DOMAIN entry /\ entry[e].claimed) =>
                        /\ last'.err # Ok
                        /\ UNCHANGED Accounts
                        /\ (g \in DOMAIN game /\ v = g /\ entry[e].player = p
                                /\ entry[e].game = g)
                              => last'.err = "AlreadyClaimed"
        /\ \A e \in DOMAIN entry :
              entry[e].claimed => (e \in DOMAIN entry' /\ entry'[e].claimed)
      ]_vars

\* C1 witness: a claim on an entry that is already claimed was just refused
ClaimedAtMostOnceWitness ==
    /\ last = Result("claim_winnings", "AlreadyClaimed")
    /\ \E e \in DOMAIN entry : entry[e].claimed /\ paid[entry[e].game] > 0

\* C2: total_pot == entry_fee * player_count in every reachable state of
\* every game.
PotIsFeeTimesPlayers ==
    \A g \in DOMAIN game :
        game[g].total_pot = game[g].entry_fee * game[g].player_count

\* C2 witness: a game with several paid entries, resolved, partly claimed
PotIsFeeTimesPlayersWitness ==
    \E g \in DOMAIN game :
        /\ game[g].entry_fee > 0
        /\ game[g].player_count >= 2
        /\ game[g].status = Rugged
        /\ paid[g] > 0
        /\ last.err # Ok

\* C3: the six token_counts slots add up to player_count in every reachable
\* state of every game.
CountsSumToPlayers ==
    \A g \in DOMAIN game :
        SumCounts(game[g].token_counts) = game[g].player_count

\* C3 witness: two players on the last token
CountsSumToPlayersWitness ==
    \E g \in DOMAIN game :
        /\ game[g].player_count >= 2
        /\ game[g].token_counts[NUM_TOKENS - 1] = 2

\* C4: a claim_winnings that succeeds on a game with total_pot P and k
\* entries on the survivor takes w = floor(P / k) from the vault (k > 0,
\* w * k <= P < (w + 1) * k) and adds the same w to the claiming player,
\* whatever has been claimed before.
PayoutIsFloorShare ==
    [][ \A p \in Signers, g \in Authorities, v \in Authorities, e \in EntryKeys :
            (last'.err = Ok /\ claim_winnings(p, g, v, e)) =>
                LET P == game[g].total_pot
                    k == SurvivorCount(game[g])
                    w == vault[g] - vault'[g]
                IN  /\ k > 0
                    /\ w * k <= P
                    /\ P < (w + 1) * k
                    /\ lamports'[p] = lamports[p] + w
                    /\ \A q \in Signers \ {p} : lamports'[q] = lamports[q]
      ]_vars

\* C4 witness: the second winner of a pot that does not divide evenly has
\* just been paid
PayoutIsFloorShareWitness ==
    /\ SucceededLast("claim_winnings")
    /\ \E g \in DOMAIN game :
          /\ game[g].status = Rugged
          /\ SurvivorCount(game[g]) >= 2
          /\ game[g].total_pot % SurvivorCount(game[g]) # 0
          /\ Cardinality({e \in Winners(g) : entry[e].claimed}) >= 2

\* C5: what claim_winnings has taken out of a game's vault never exceeds the
\* game's total_pot, and nothing is taken out of a vault that has no game.
PaidAtMostPot ==
    \A k \in DOMAIN paid :
        IF k \in DOMAIN game
        THEN paid[k] <= game[k].total_pot
        ELSE paid[k] = 0

\* C5 witness: every winner of a game with several winners has claimed
PaidAtMostPotWitness ==
    \E g \in DOMAIN game :
        /\ game[g].status = Rugged
        /\ Cardinality(Winners(g)) >= 2
        /\ AllWinnersClaimed(g)
        /\ paid[g] > 0

\* C6: once a game is rugged and every entry that can claim has claimed, the
\* vault holds at most token_counts[survivor] - 1 lamports of the stakes
\* (nothing when no lamport can be dust).
StakeReleasedUpToDust ==
    \A g \in DOMAIN game :
        (game[g].status = Rugged /\ AllWinnersClaimed(g))
            => vault[g] <= (IF SurvivorCount(game[g]) > 0
                            THEN SurvivorCount(game[g]) - 1
                            ELSE 0)

\* C7: once the k > 0 winners of a pot P have all claimed, the vault holds
\* exactly P - k * floor(P / k), the rest of the pot has been paid, and no
\* instruction changes the vault afterwards.  In the worked example (fee 100,
\* three entries on token 2, two on token 5, survivor 2) the pot is 500, every
\* claim pays 166, and 498 are paid and 2 left when the three have claimed.
RemainderStaysInVault ==
    [][ \A g \in DOMAIN game :
          LET gm == game[g]
              P == gm.total_pot
              k == SurvivorCount(gm)
              claimed == {e \in Winners(g) : entry[e].claimed}
          IN  gm.status = Rugged =>
                /\ (k > 0 /\ AllWinnersClaimed(g)) =>
                      /\ vault[g] = P - k * (P \div k)
                      /\ paid[g] = k * (P \div k)
                      /\ vault'[g] = vault[g]
                      /\ paid'[g] = paid[g]
                /\ ( /\ gm.entry_fee = 100
                     /\ gm.player_count = 5
                     /\ gm.token_counts[2] = 3
                     /\ gm.token_counts[5] = 2
                     /\ gm.survivor_index = Some(2) ) =>
                      /\ P = 500
                      /\ paid[g] = 166 * Cardinality(claimed)
                      /\ vault[g] = 500 - paid[g]
                      /\ Cardinality(claimed) = 3 => (paid[g] = 498 /\ vault[g] = 2)
      ]_vars

\* C7 witness: the worked example after its three claims, and an instruction
\* that was tried after them
RemainderStaysInVaultWitness ==
    /\ last.err # Ok
    /\ \E g \in DOMAIN game :
          /\ game[g].status = Rugged
          /\ game[g].entry_fee = 100
          /\ game[g].token_counts[2] = 3
          /\ game[g].token_counts[5] = 2
          /\ game[g].survivor_index = Some(2)
          /\ AllWinnersClaimed(g)
          /\ vault[g] = 2

\* C8: in a rugged game a claim_winnings on an entry whose token is not the
\* survivor fails and changes no account, with NotASurvivor when the accounts
\* presented are the entry's own; such an entry is never claimed, and the
\* lamports of a player never grow unless that player's own entry holds the
\* survivor.
LoserNeverPaid ==
    [][ /\ \A p \in Signers, g \in Authorities, v \in Authorities, e \in EntryKeys :
              ( /\ last'.op = "claim_winnings"
                /\ g \in DOMAIN game
                /\ e \in DOMAIN entry
                /\ game[g].status = Rugged
                /\ entry[e].game = g
                /\ entry[e].token_index # game[g].survivor_index[1]
                /\ claim_winnings(p, g, v, e) ) =>
                  /\ last'.err # Ok
                  /\ UNCHANGED Accounts
                  /\ (v = g /\ entry[e].player = p) => last'.err = "NotASurvivor"
        /\ \A e \in DOMAIN entry :
              LET gm == game[entry[e].game] IN
              (gm.status = Rugged /\ entry[e].token_index # gm.survivor_index[1]) =>
                  /\ ~entry[e].claimed
                  /\ ~entry'[e].claimed
                  /\ lamports'[entry[e].player] <= lamports[entry[e].player]
      ]_vars

\* C8 witness: a losing entry's own claim was just refused
LoserNeverPaidWitness ==
    /\ last = Result("claim_winnings", "NotASurvivor")
    /\ \E e \in DOMAIN entry :
          /\ game[entry[e].game].status = Rugged
          /\ entry[e].token_index # game[entry[e].game].survivor_index[1]
          /\ ~entry[e].claimed

\* C9: a trigger_rug on a rugged game fails and changes no account, with
\* GameNotOpen when the signer is the game's authority, whatever the clock
\* reads; a rugged game stays rugged and keeps its survivor_index.
RugIsFinal ==
    [][ /\ \A a \in Signers, g \in Authorities :
              ( /\ last'.op = "trigger_rug"
                /\ g \in DOMAIN game
                /\ game[g].status = Rugged
                /\ trigger_rug(a, g) ) =>
                  /\ last'.err # Ok
                  /\ UNCHANGED Accounts
                  /\ game[g].authority = a => last'.err = "GameNotOpen"
        /\ \A g \in DOMAIN game :
              game[g].status = Rugged =>
                  /\ g \in DOMAIN game'
                  /\ game'[g].status = Rugged
                  /\ game'[g].survivor_index = game[g].survivor_index
      ]_vars

\* C9 witness: the authority's second trigger_rug was just refused
RugIsFinalWitness ==
    /\ last = Result("trigger_rug", "GameNotOpen")
    /\ \E g \in DOMAIN game : game[g].status = Rugged /\ game[g].survivor_index # None

\* C10: a trigger_rug on an open game without players fails, with NoPlayers
\* when the signer is the game's authority, and leaves the game open, without
\* a survivor, and every account unchanged.
EmptyGameNotRugged ==
    [][ \A a \in Signers, g \in Authorities :
            ( /\ last'.op = "trigger_rug"
              /\ g \in DOMAIN game
              /\ game[g].status = Open
              /\ game[g].player_count = 0
              /\ trigger_rug(a, g) ) =>
                /\ last'.err # Ok
                /\ game[g].authority = a => last'.err = "NoPlayers"
                /\ UNCHANGED Accounts
                /\ game'[g].status = Open
                /\ game'[g].survivor_index = None
      ]_vars

\* C10 witness: the authority's trigger_rug on an empty open game was just
\* refused
EmptyGameNotRuggedWitness ==
    /\ last = Result("trigger_rug", "NoPlayers")
    /\ \E g \in DOMAIN game :
          /\ game[g].status = Open
          /\ game[g].player_count = 0
          /\ game[g].survivor_index = None

\* C11: an enter_game by a player who already has an entry in the game fails,
\* whatever token it names, and changes no account; an entry, once created,
\* keeps its player, game and token.  Transactions are serial, so of two
\* enter_game of one player in one game the second finds the entry.
SecondEntryRefused ==
    [][ /\ \A p \in Signers, g \in Authorities, v \in Authorities, t \in TokenInputs :
              ( /\ last'.op = "enter_game"
                /\ <<g, p>> \in DOMAIN entry
                /\ enter_game(p, g, v, t) ) =>
                  /\ last'.err # Ok
                  /\ UNCHANGED Accounts
        /\ \A e \in DOMAIN entry :
              /\ e \in DOMAIN entry'
              /\ entry'[e].token_index = entry[e].token_index
              /\ entry'[e].player = entry[e].player
              /\ entry'[e].game = entry[e].game
      ]_vars

\* C11 witness: a player who could pay again was just refused a second entry
\* in an open game
SecondEntryRefusedWitness ==
    /\ last = Result("enter_game", "AccountAlreadyInUse")
    /\ \E e \in DOMAIN entry :
          /\ game[entry[e].game].status = Open
          /\ lamports[entry[e].player] >= game[entry[e].game].entry_fee

\* C12: in every reachable state of every game, survivor_index is Some
\* exactly when status is Rugged, and a survivor names one of the tokens.
SurvivorIffRugged ==
    \A g \in DOMAIN game :
        /\ (game[g].survivor_index # None) <=> (game[g].status = Rugged)
        /\ game[g].status \in {Open, Rugged}
        /\ game[g].survivor_index # None => game[g].survivor_index[1] \in TokenSlots

\* C12 witness: a game that has just been rugged
SurvivorIffRuggedWitness ==
    /\ last.op = "trigger_rug"
    /\ last.err = Ok
    /\ \E g \in DOMAIN game :
          game[g].status = Rugged /\ game[g].survivor_index # None

\* C13: a trigger_rug signed by anyone but the game's stored authority fails
\* with the has_one constraint and changes no account, also when the signer
\* has an entry in the game; a trigger_rug that succeeds is signed by the
\* authority.
OnlyAuthorityRugs ==
    [][ \A a \in Signers, g \in Authorities :
            (last'.op = "trigger_rug" /\ g \in DOMAIN game /\ trigger_rug(a, g)) =>
                /\ last'.err = Ok => game[g].authority = a
                /\ game[g].authority # a =>
                      /\ last'.err = "ConstraintHasOne"
                      /\ UNCHANGED Accounts
      ]_vars

\* C13 witness: a player of an open game, not its authority, was just refused
OnlyAuthorityRugsWitness ==
    /\ last = Result("trigger_rug", "ConstraintHasOne")
    /\ \E e \in DOMAIN entry :
          /\ entry[e].player # game[entry[e].game].authority
          /\ game[entry[e].game].status = Open

\* C14: an enter_game by a player who owns less than entry_fee fails and
\* changes no account, with InsufficientFunds when the call is otherwise
\* acceptable, and no entry exists for the pair afterwards; an enter_game
\* that succeeds moves exactly entry_fee from the player to the game's vault
\* and touches no other balance.
EntryIsAllOrNothing ==
    [][ \A p \in Signers, g \in Authorities, v \in Authorities, t \in TokenInputs :
            (last'.op = "enter_game" /\ g \in DOMAIN game /\ enter_game(p, g, v, t)) =>
                /\ lamports[p] < game[g].entry_fee =>
                      /\ last'.err # Ok
                      /\ UNCHANGED Accounts
                      /\ ( /\ v = g
                           /\ <<g, p>> \notin DOMAIN entry
                           /\ t \in TokenSlots
                           /\ game[g].status = Open ) =>
                              /\ last'.err = "InsufficientFunds"
                              /\ <<g, p>> \notin DOMAIN entry'
                /\ last'.err = Ok =>
                      /\ lamports'[p] = lamports[p] - game[g].entry_fee
                      /\ lamports'[p] >= 0
                      /\ vault'[g] = vault[g] + game[g].entry_fee
                      /\ \A q \in Signers \ {p} : lamports'[q] = lamports[q]
                      /\ \A w \in (DOMAIN vault) \ {g} : vault'[w] = vault[w]
                      /\ paid' = paid
                      /\ <<g, p>> \in DOMAIN entry'
                /\ last'.err # Ok => UNCHANGED Accounts
      ]_vars

\* C14 witness: a player without the fee was just refused in an open game and
\* has no entry
EntryIsAllOrNothingWitness ==
    /\ last = Result("enter_game", "InsufficientFunds")
    /\ \E g \in DOMAIN game, p \in Signers :
          /\ game[g].status = Open
          /\ lamports[p] < game[g].entry_fee
          /\ <<g, p>> \notin DOMAIN entry

\* C15: whenever an entry could claim but for the vault's balance (its game
\* is Rugged, it is unclaimed and holds the survivor), the game's vault holds
\* at least floor(total_pot / token_counts[survivor]); the subtraction of
\* line 113 has never underflowed and no vault is ever negative.
VaultCoversPayout ==
    /\ \A e \in DOMAIN entry :
          LET gm == game[entry[e].game] IN
          ( /\ gm.status = Rugged
            /\ ~entry[e].claimed
            /\ entry[e].token_index = gm.survivor_index[1] ) =>
                /\ SurvivorCount(gm) > 0
                /\ vault[entry[e].game] >= gm.total_pot \div SurvivorCount(gm)
    /\ \A k \in DOMAIN vault : vault[k] >= 0
    /\ last.err # "LamportUnderflow"

\* C15 witness: a winner has been paid from a pot that does not divide evenly
\* and another winner has yet to claim
VaultCoversPayoutWitness ==
    \E e \in DOMAIN entry :
        LET gm == game[entry[e].game] IN
        /\ gm.status = Rugged
        /\ ~entry[e].claimed
        /\ entry[e].token_index = gm.survivor_index[1]
        /\ gm.total_pot % SurvivorCount(gm) # 0
        /\ paid[entry[e].game] > 0

\* C16: a game keeps its entry_fee and authority; once Rugged its total_pot,
\* player_count and token_counts never change; while Open none of them
\* decreases.  An enter_game on a Rugged game fails and changes no account,
\* with GameNotOpen when the call is otherwise acceptable, and a
\* claim_winnings changes no field of any game.
RuggedGameIsFrozen ==
    [][ /\ \A g \in DOMAIN game :
              /\ g \in DOMAIN game'
              /\ game'[g].entry_fee = game[g].entry_fee
              /\ game'[g].authority = game[g].authority
              /\ game[g].status = Rugged =>
                    /\ game'[g].total_pot = game[g].total_pot
                    /\ game'[g].player_count = game[g].player_count
                    /\ game'[g].token_counts = game[g].token_counts
              /\ game[g].status = Open =>
                    /\ game'[g].total_pot >= game[g].total_pot
                    /\ game'[g].player_count >= game[g].player_count
                    /\ \A t \in TokenSlots :
                          game'[g].token_counts[t] >= game[g].token_counts[t]
        /\ \A p \in Signers, g \in Authorities, v \in Authorities, t \in TokenInputs :
              ( /\ last'.op = "enter_game"
                /\ g \in DOMAIN game
                /\ game[g].status = Rugged
                /\ enter_game(p, g, v, t) ) =>
                  /\ last'.err # Ok
                  /\ UNCHANGED Accounts
                  /\ (v = g /\ <<g, p>> \notin DOMAIN entry /\ t \in TokenSlots)
                        => (last'.err = "GameNotOpen" /\ <<g, p>> \notin DOMAIN entry')
        /\ last'.op = "claim_winnings" => game' = game
      ]_vars

\* C16 witness: a player without an entry, who could pay, was just refused by
\* a rugged game that holds a pot
RuggedGameIsFrozenWitness ==
    /\ last = Result("enter_game", "GameNotOpen")
    /\ \E g \in DOMAIN game, p \in Signers :
          /\ game[g].status = Rugged
          /\ game[g].total_pot > 0
          /\ <<g, p>> \notin DOMAIN entry
          /\ lamports[p] >= game[g].entry_fee

\* an entry is claimed, or a vault has paid, only in a Rugged game, and a
\* claimed entry holds the survivor
PaidOnlyAfterRug ==
    /\ \A e \in DOMAIN entry :
          entry[e].claimed =>
              /\ game[entry[e].game].status = Rugged
              /\ game[entry[e].game].survivor_index = Some(entry[e].token_index)
    /\ \A k \in DOMAIN paid :
          paid[k] > 0 => (k \in DOMAIN game /\ game[k].status = Rugged)

\* C17: a claim_winnings on a game that is not Rugged fails and changes no
\* account, with GameNotRugged when the accounts presented are the entry's
\* own; a claim_winnings that succeeds starts from a Rugged game, a game
\* becomes Rugged only by a trigger_rug that succeeds, and every claimed entry
\* belongs to a Rugged game and holds its survivor.
NoPayoutBeforeRug ==
    [][ /\ \A p \in Signers, g \in Authorities, v \in Authorities, e \in EntryKeys :
              (last'.op = "claim_winnings" /\ g \in DOMAIN game
                    /\ claim_winnings(p, g, v, e)) =>
                  /\ last'.err = Ok => game[g].status = Rugged
                  /\ game[g].status # Rugged =>
                        /\ last'.err # Ok
                        /\ UNCHANGED Accounts
                        /\ ( /\ v = g
                             /\ e \in DOMAIN entry
                             /\ entry[e].player = p
                             /\ entry[e].game = g ) =>
                                (last'.err = "GameNotRugged" /\ ~entry'[e].claimed)
        /\ \A g \in DOMAIN game :
              (game[g].status # Rugged /\ game'[g].status = Rugged) =>
                  (last'.op = "trigger_rug" /\ last'.err = Ok)
        /\ PaidOnlyAfterRug
        /\ PaidOnlyAfterRug'
      ]_vars

\* C17 witness: an entry's own claim on an open game was just refused
NoPayoutBeforeRugWitness ==
    /\ last = Result("claim_winnings", "GameNotRugged")
    /\ \E e \in DOMAIN entry :
          /\ game[entry[e].game].status = Open
          /\ ~entry[e].claimed

\* 2^64 mod NUM_TOKENS, by squaring 2^16 twice
TwoTo64Rem ==
    LET r16 == 65536 % NUM_TOKENS
        r32 == (r16 * r16) % NUM_TOKENS
    IN  (r32 * r32) % NUM_TOKENS

\* ((slot + unix_timestamp) mod 2^64) mod NUM_TOKENS in unbounded integers,
\* for a sum between -2^64 and 2^64
SeedRem(slot, unix_timestamp) ==
    IF slot + unix_timestamp >= 0
    THEN (slot + unix_timestamp) % NUM_TOKENS
    ELSE (TwoTo64Rem + slot + unix_timestamp) % NUM_TOKENS

\* C18: a trigger_rug that succeeds with the clock at (slot, unix_timestamp)
\* sets the survivor of its game to ((slot + unix_timestamp) mod 2^64) mod 6,
\* a token of 0..5 and a function of the two clock values alone, and rugs no
\* other game; a sum that passes 2^64 wraps.
SurvivorIsSeedRem ==
    [][ (last'.op = "trigger_rug" /\ last'.err = Ok) =>
            /\ \E g \in DOMAIN game : game[g].status = Open /\ game'[g].status = Rugged
            /\ \A g \in DOMAIN game :
                  IF game[g].status = Open /\ game'[g].status = Rugged
                  THEN /\ game'[g].survivor_index =
                              Some(SeedRem(last'.clock[1], last'.clock[2]))
                       /\ game'[g].survivor_index[1] \in TokenSlots
                  ELSE game'[g] = game[g]
      ]_vars

\* C18 witness: a game rugged at slot 1 and timestamp -1, where the u64 sum
\* wraps to 0
SurvivorIsSeedRemWitness ==
    /\ last = RugResult(1, 0 - 1)
    /\ \E g \in DOMAIN game :
          game[g].status = Rugged /\ game[g].survivor_index = Some(0)

EntriesOf(g) == {e \in DOMAIN entry : entry[e].game = g}

\* the entries are what the counters of their games count
EntriesMatchCounts ==
    /\ \A e \in DOMAIN entry :
          /\ entry[e].game \in DOMAIN game
          /\ e = <<entry[e].game, entry[e].player>>
          /\ entry[e].token_index \in TokenSlots
    /\ \A g \in DOMAIN game :
          /\ Cardinality(EntriesOf(g)) = game[g].player_count
          /\ \A t \in TokenSlots :
                Cardinality({e \in EntriesOf(g) : entry[e].token_index = t})
                    = game[g].token_counts[t]
          /\ (game[g].status = Rugged /\ Winners(g) # {}) => SurvivorCount(game[g]) > 0
    /\ last.err # "NoSurvivors"

\* C19: in every reachable state a game has player_count entries, every
\* entry's token is one of 0..5, and token_counts[c] is the number of the
\* game's entries on token c, so an entry on the survivor makes
\* token_counts[survivor] positive and claim_winnings never ends with
\* NoSurvivors; an enter_game with a token of 6 or more fails and changes no
\* account, with InvalidTokenIndex when the accounts are acceptable.
EntriesAreCounted ==
    [][ /\ EntriesMatchCounts
        /\ EntriesMatchCounts'
        /\ \A p \in Signers, g \in Authorities, v \in Authorities, t \in TokenInputs :
              ( /\ last'.op = "enter_game"
                /\ t \notin TokenSlots
                /\ enter_game(p, g, v, t) ) =>
                  /\ last'.err # Ok
                  /\ UNCHANGED Accounts
                  /\ (g \in DOMAIN game /\ v = g /\ <<g, p>> \notin DOMAIN entry)
                        => last'.err = "InvalidTokenIndex"
      ]_vars

\* C19 witness: an out-of-range token was just refused by a game with one
\* entry, counted on its token
EntriesAreCountedWitness ==
    /\ last = Result("enter_game", "InvalidTokenIndex")
    /\ \E g \in DOMAIN game :
          /\ game[g].player_count = 1
          /\ \E e \in EntriesOf(g) : game[g].token_counts[entry[e].token_index] = 1

\* C20: with two games, a claim_winnings succeeds only when the entry
\* presented belongs to the game presented, the signer is the entry's player
\* and the vault is that game's; it then takes from that vault alone what it
\* gives to that player alone, and changes no other entry and no game.  A
\* claim that presents an entry of another game, or another player's entry,
\* or another game's vault, fails and changes no account.
ClaimsStayInTheirGame ==
    [][ \A p \in Signers, g \in Signers, v \in Signers, e \in Signers \X Signers :
            (last'.op = "claim_winnings" /\ claim_winnings(p, g, v, e)) =>
                /\ last'.err = Ok =>
                      /\ e \in DOMAIN entry
                      /\ entry[e].game = g
                      /\ entry[e].player = p
                      /\ v = g
                      /\ vault'[g] <= vault[g]
                      /\ lamports'[p] - lamports[p] = vault[g] - vault'[g]
                      /\ \A w \in (DOMAIN vault) \ {g} : vault'[w] = vault[w]
                      /\ \A q \in Signers \ {p} : lamports'[q] = lamports[q]
                      /\ \A f \in (DOMAIN entry) \ {e} : entry'[f] = entry[f]
                      /\ DOMAIN entry' = DOMAIN entry
                      /\ game' = game
                /\ ( /\ e \in DOMAIN entry
                     /\ (entry[e].game # g \/ entry[e].player # p \/ v # g) ) =>
                      /\ last'.err # Ok
                      /\ UNCHANGED Accounts
      ]_vars

\* C20 witness: with both games rugged on the same survivor and both vaults
\* funded, a claim was just refused for an account that is not the entry's
\* own, while an unclaimed entry holds the survivor
ClaimsStayInTheirGameWitness ==
    /\ last = Result("claim_winnings", "ConstraintHasOne")
    /\ \A g \in TwoKeys :
          /\ g \in DOMAIN game
          /\ game[g].status = Rugged
          /\ vault[g] > 0
    /\ game[1].survivor_index = game[2].survivor_index
    /\ \E e \in DOMAIN entry : e \in Winners(e[1]) /\ ~entry[e].claimed

====
